---- MODULE Spec2Model ----
(***************************************************************************)
(* A model of transformer/task.py: the payload interpreter                 *)
(* (RequestsPostData.from_har_post_data), the call-expression builders     *)
(* (req_to_expr, lreq_to_expr), the legacy Task and its copy-on-mutate     *)
(* operations, the target Task2 and its deferred request binding, and the  *)
(* two from_requests pipelines.                                            *)
(*                                                                         *)
(* Python values are modelled as tagged records so that values of          *)
(* different Python types stay comparable: a scalar is [type, s], a raised *)
(* exception is named by its class in the field exc ("none": no raise).    *)
(***************************************************************************)
EXTENDS Integers, Sequences, FiniteSets, TLC

VARIABLES
    post_data,   \* SpecPayload: the HAR postData object handed to the interpreter
    rpd,         \* SpecPayload: outcome of RequestsPostData.from_har_post_data
    request,     \* SpecExpr: the Request handed to the builders
    expr_req,    \* SpecExpr: outcome of req_to_expr(request)
    expr_lreq,   \* SpecExpr: outcome of lreq_to_expr(LocustRequest.from_request(request))
    requests,    \* SpecPipeline: the Requests handed to from_requests, in enumeration order
    out_task,    \* SpecPipeline: what draining Task.from_requests(requests) gave
    out_task2,   \* SpecPipeline: what draining Task2.from_requests(requests) gave
    heap,        \* SpecTask: the dict objects (header mappings), by identity
    tasks,       \* SpecTask: every legacy Task value created so far, by identity
    lineage,     \* SpecTask: for each Task, the call that returned it (history)
    t2,          \* SpecTask: the target Task2 object built by Task2.from_task
    resolved     \* SpecTask: outcome of the last resolution of t2's deferred binding

vars == << post_data, rpd, request, expr_req, expr_lreq, requests, out_task,
           out_task2, heap, tasks, lineage, t2, resolved >>

payloadVars == << post_data, rpd >>
exprVars == << request, expr_req, expr_lreq >>
pipelineVars == << requests, out_task, out_task2 >>
taskVars == << heap, tasks, lineage, t2, resolved >>

(***************************************************************************)
(* Bounds of the explored inputs.                                          *)
(***************************************************************************)
MaxParams == 2
MaxUrlLen == 2
MaxRequests == 4
MaxTime == 2
MaxTasks == 3

(***************************************************************************)
(* Python scalars.                                                         *)
(***************************************************************************)
Str(s) == [type |-> "str", s |-> s]
Bytes(s) == [type |-> "bytes", s |-> s]
None == [type |-> "NoneType", s |-> ""]
\* Not a Python value: the key is missing from the mapping.
Absent == [type |-> "absent", s |-> ""]
\* A value of a type other than str (it has no .encode attribute).
Int5 == [type |-> "int", s |-> "5"]

JSON_MIME_TYPE == "application/json"
TIMEOUT == 30

\* A str holding a lone surrogate: str.encode() raises UnicodeEncodeError on it.
Surrogate == "\\ud800"
\* The body texts json.loads accepts.
JsonTexts == {"{\"a\":1}"}

\* str.encode(): UTF-8 bytes of an encodable str.
encode(v) == Bytes(v.s)
\* What x.encode() raises, "none" when it returns.
EncodeExc(v) ==
    IF v.type # "str" THEN "AttributeError"
    ELSE IF v.s = Surrogate THEN "UnicodeEncodeError"
    ELSE "none"

\* json.loads(text): the decoded value, and what it raises.
JsonLoadsExc(v) ==
    IF v.type # "str" THEN "TypeError"
    ELSE IF v.s \notin JsonTexts THEN "JSONDecodeError"
    ELSE "none"
json_loads(v) == [type |-> "dict", s |-> v.s]

\* Python's exception hierarchy: what `except ValueError` catches.
IsValueError(e) == e \in {"ValueError", "UnicodeEncodeError", "JSONDecodeError"}

(***************************************************************************)
(* HAR postData objects.  The params field is [type, items]: type "list"   *)
(* with its elements, or "absent" / "NoneType" / "dict" (not a list).  An  *)
(* element is a name/value mapping (type "dict", a missing key is Absent)  *)
(* or a value that is no mapping (type "int").                             *)
(***************************************************************************)
NoParamsKey == [type |-> "absent", items |-> << >>]
NullParams == [type |-> "NoneType", items |-> << >>]
NotAList == [type |-> "dict", items |-> << >>]
ListOf(items) == [type |-> "list", items |-> items]
Elem(n, v) == [type |-> "dict", name |-> n, value |-> v]
NotAMapping == [type |-> "int", name |-> Absent, value |-> Absent]

\* LocustRequest.post_data's default, MappingProxyType({}).
EmptyPostData == [mimeType |-> Absent, text |-> Absent, params |-> NoParamsKey]

\* RequestsPostData, with the outcome of building it: exc is the class of the
\* exception that left the call ("none": it returned), cause its __cause__,
\* descriptor the postData object the message of InvalidPayload shows.
NoLiteral == None
NoParams == [type |-> "NoneType", items |-> << >>]
RequestsPostData(d, p, j) ==
    [exc |-> "none", msg |-> "", cause |-> "none", descriptor |-> EmptyPostData,
     data |-> d, params |-> p, json |-> j]
Raise(e, m, c) ==
    [exc |-> e, msg |-> m, cause |-> c, descriptor |-> EmptyPostData,
     data |-> NoLiteral, params |-> NoParams, json |-> NoLiteral]

\* [(d["name"].encode(), d["value"].encode()) for d in dicts]: the exception of
\* the first element that raises, else the list of pairs.
ElemExc(d) ==
    IF d.type # "dict" THEN "TypeError"
    ELSE IF d.name.type = "absent" THEN "KeyError"
    ELSE IF EncodeExc(d.name) # "none" THEN EncodeExc(d.name)
    ELSE IF d.value.type = "absent" THEN "KeyError"
    ELSE EncodeExc(d.value)

RECURSIVE _params_from_name_value_dicts(_)
_params_from_name_value_dicts(dicts) ==
    IF dicts = << >> THEN [exc |-> "none", items |-> << >>]
    ELSE IF ElemExc(Head(dicts)) # "none"
         THEN [exc |-> ElemExc(Head(dicts)), items |-> << >>]
    ELSE LET rest == _params_from_name_value_dicts(Tail(dicts))
         IN  IF rest.exc # "none" THEN rest
             ELSE [exc |-> "none",
                   items |-> << << encode(Head(dicts).name),
                                   encode(Head(dicts).value) >> >> \o rest.items]

\* _params_from_post_data: None when post_data.get(key) is None, TypeError
\* when it is not a list.
ParamsOutcome(r) ==
    [exc |-> r.exc, type |-> IF r.exc = "none" THEN "list" ELSE "NoneType",
     items |-> r.items]

_params_from_post_data(pd) ==
    IF pd.params.type \in {"absent", "NoneType"}
    THEN [exc |-> "none", type |-> "NoneType", items |-> << >>]
    ELSE IF pd.params.type # "list"
    THEN [exc |-> "TypeError", type |-> "NoneType", items |-> << >>]
    ELSE ParamsOutcome(_params_from_name_value_dicts(pd.params.items))

\* rpd.json = py.Literal(json.loads(text))
JsonBranch(text, exc) ==
    IF text = None
    THEN Raise("ValueError", "missing 'text' field for application/json content", "none")
    ELSE IF exc = "JSONDecodeError"
    THEN Raise("ValueError", "unreadable JSON from field 'text'", "JSONDecodeError")
    ELSE IF exc # "none" THEN Raise(exc, "", "none")
    ELSE RequestsPostData(NoLiteral, NoParams, json_loads(text))

\* rpd.data = py.Literal(text.encode())
DataBranch(text, exc) ==
    IF exc = "UnicodeEncodeError"
    THEN Raise("ValueError", "cannot encode the 'text' field in UTF-8", "UnicodeEncodeError")
    ELSE IF exc # "none" THEN Raise(exc, "", "none")
    ELSE RequestsPostData(encode(text), NoParams, NoLiteral)

\* _extract_text, with text = post_data.get(text_k): sets rpd.json or
\* rpd.data, or raises.
ExtractText(mime, text) ==
    IF mime = Str(JSON_MIME_TYPE) THEN JsonBranch(text, JsonLoadsExc(text))
    ELSE IF text # None THEN DataBranch(text, EncodeExc(text))
    ELSE RequestsPostData(NoLiteral, NoParams, NoLiteral)

_extract_text(pd) ==
    ExtractText(pd.mimeType, IF pd.text.type = "absent" THEN None ELSE pd.text)

\* `text_k not in post_data and params_k not in post_data`
LacksTextAndParams(pd) == pd.text.type = "absent" /\ pd.params.type = "absent"

\* The tail of _from_har_post_data: t is what _extract_text left in rpd (or
\* raised), p what _params_from_post_data returned (or raised).
WithParams(t, p) ==
    IF t.exc # "none" THEN t
    ELSE IF p.exc \in {"KeyError", "UnicodeEncodeError", "TypeError"}
    THEN Raise("ValueError", "unreadable params field", p.exc)
    ELSE IF p.exc # "none" THEN Raise(p.exc, "", "none")
    ELSE IF p.type = "list"
    THEN [t EXCEPT !.params = [type |-> "list", items |-> p.items]]
    ELSE t

_from_har_post_data(pd) ==
    IF pd.mimeType.type = "absent"
    THEN Raise("ValueError", "missing 'mimeType' field", "none")
    ELSE IF LacksTextAndParams(pd)
    THEN Raise("ValueError", "should contain 'text' or 'params'", "none")
    ELSE WithParams(_extract_text(pd), _params_from_post_data(pd))

\* `except ValueError as err: raise ValueError(f"invalid HAR postData object:
\* {post_data!r}") from err`
Reraise(r, pd) ==
    IF IsValueError(r.exc)
    THEN [exc |-> "ValueError", msg |-> "invalid HAR postData object",
          cause |-> r.exc, descriptor |-> pd,
          data |-> NoLiteral, params |-> NoParams, json |-> NoLiteral]
    ELSE r

\* RequestsPostData.from_har_post_data
from_har_post_data(pd) == Reraise(_from_har_post_data(pd), pd)

\* The error kind the specification calls InvalidPayload.
IsInvalidPayload(r, pd) ==
    /\ r.exc = "ValueError"
    /\ r.msg = "invalid HAR postData object"
    /\ r.descriptor = pd
    /\ r.cause # "none"

(***************************************************************************)
(* Python str values the code slices or quotes (URL texts) are sequences   *)
(* of one-character strings.                                               *)
(***************************************************************************)
SQ == "'"
DQ == "\""
BS == "\\"

Has(s, c) == \E i \in 1..Len(s) : s[i] = c

\* s[a:-1] for a >= 0 (Python slicing never raises).
SliceToLast(s, a) ==
    IF Len(s) - 1 < a + 1 THEN << >> ELSE SubSeq(s, a + 1, Len(s) - 1)

\* s.startswith("f")
StartsWithF(s) == Len(s) >= 1 /\ s[1] = "f"

RECURSIVE Escaped(_, _)
Escaped(s, q) ==
    IF s = << >> THEN << >>
    ELSE (IF Head(s) = BS THEN << BS, BS >>
          ELSE IF Head(s) = q THEN << BS, q >>
          ELSE << Head(s) >>) \o Escaped(Tail(s), q)

\* repr(s) of a str of printable characters: double quotes when s holds a
\* single quote and no double quote, single quotes otherwise; the backslash
\* and the chosen quote are escaped.
repr(s) ==
    LET q == IF Has(s, SQ) /\ ~Has(s, DQ) THEN DQ ELSE SQ
    IN  << q >> \o Escaped(s, q) \o << q >>

(***************************************************************************)
(* Mappings (Python dicts) are functions from keys to values.              *)
(***************************************************************************)
EmptyDict == << >>

\* {**a, **b}
Merge(a, b) ==
    [k \in (DOMAIN a) \cup (DOMAIN b) |-> IF k \in DOMAIN b THEN b[k] ELSE a[k]]

\* transformer.helpers.zip_kv_pairs: the mapping of a list of name/value
\* pairs, a later pair replacing an earlier one of the same name.
RECURSIVE zip_kv_pairs(_)
zip_kv_pairs(pairs) ==
    IF pairs = << >> THEN EmptyDict
    ELSE LET init == zip_kv_pairs(SubSeq(pairs, 1, Len(pairs) - 1))
             last == pairs[Len(pairs)]
         IN  Merge(init, [k \in {last.name} |-> last.value])

(***************************************************************************)
(* Requests and the call-expression builders.                              *)
(***************************************************************************)
NOOP_HTTP_METHODS == {"GET", "OPTIONS", "DELETE"}
HttpMethod == {"GET", "POST", "PUT", "OPTIONS", "DELETE", "PATCH"}

\* HttpMethod.name.lower()
Lower(m) ==
    CASE m = "GET" -> "get" [] m = "POST" -> "post" [] m = "PUT" -> "put"
      [] m = "OPTIONS" -> "options" [] m = "DELETE" -> "delete"
      [] OTHER -> "patch"

\* A Request: url is r.url.geturl(), netloc is r.url.netloc.
Request(i, ts, host, m, u, h, pd, q) ==
    [id |-> i, timestamp |-> ts, netloc |-> host, method |-> m, url |-> u,
     headers |-> h, post_data |-> pd, query |-> q]

\* Expression nodes of transformer.python.
Literal(v) == [node |-> "Literal", value |-> v]
FString(v) == [node |-> "FString", value |-> v]
NoArg == [type |-> "absent", items |-> << >>]

\* py.FunctionCall(name, named_args): keys is the insertion order of the
\* OrderedDict; exc is the exception that left the builder instead.
FunctionCall(n, ks, u, h, d, p, j) ==
    [exc |-> "none", cause |-> "none", name |-> n, keys |-> ks, url |-> u,
     headers |-> h, timeout |-> Literal(TIMEOUT), allow_redirects |-> Literal(FALSE),
     data |-> d, params |-> p, json |-> j]
BuildRaise(e, c) ==
    [exc |-> e, cause |-> c, name |-> "", keys |-> << >>, url |-> Literal(<< >>),
     headers |-> Literal(EmptyDict), timeout |-> Literal(TIMEOUT),
     allow_redirects |-> Literal(FALSE),
     data |-> NoLiteral, params |-> NoArg, json |-> NoLiteral]

BaseKeys == << "url", "name", "headers", "timeout", "allow_redirects" >>

\* RequestsPostData.as_kwargs: the fields that are not None, in field order.
as_kwargs(r) ==
    (IF r.data # NoLiteral THEN << "data" >> ELSE << >>)
    \o (IF r.params.type # "NoneType" THEN << "params" >> ELSE << >>)
    \o (IF r.json # NoLiteral THEN << "json" >> ELSE << >>)

\* dataclasses.asdict(q) for q in query
QueryDicts(query) == [i \in 1..Len(query) |-> Elem(query[i].name, query[i].value)]

\* args.setdefault("params", py.Literal({}))
DefaultParams == [type |-> "dict", items |-> << >>]

\* args.update(rpd.as_kwargs()) on the base arguments; r is what
\* RequestsPostData.from_har_post_data returned or raised.
Posted(name, url, headers, r) ==
    IF r.exc # "none" THEN BuildRaise(r.exc, r.cause)
    ELSE FunctionCall(name, BaseKeys \o as_kwargs(r), url, Literal(headers), r.data,
                      IF r.params.type = "NoneType" THEN NoArg
                      ELSE [type |-> "list", items |-> r.params.items],
                      r.json)

\* cast(py.Literal, args["params"]).value.extend(q): the attribute extend is
\* looked up before its argument q is built.
Extend(call, ks, arg, q) ==
    IF arg.type # "list" THEN BuildRaise("AttributeError", "none")
    ELSE IF q.exc # "none" THEN BuildRaise(q.exc, "none")
    ELSE [call EXCEPT !.keys = ks,
                      !.params = [type |-> "list", items |-> arg.items \o q.items]]

\* The PUT branch after args.update: setdefault, then extend.
Put(call, query) ==
    IF call.exc # "none" THEN call
    ELSE Extend(call,
                IF call.params = NoArg THEN call.keys \o << "params" >> ELSE call.keys,
                IF call.params = NoArg THEN DefaultParams ELSE call.params,
                _params_from_name_value_dicts(QueryDicts(query)))

\* The body shared by req_to_expr and lreq_to_expr after the url expression
\* is built: the base arguments and the dispatch on the method.
Dispatch(method, name, url, headers, pd, query) ==
    CASE method = "POST" -> Posted(name, url, headers, from_har_post_data(pd))
      [] method = "PUT" -> Put(Posted(name, url, headers, from_har_post_data(pd)), query)
      [] method \notin NOOP_HTTP_METHODS -> BuildRaise("ValueError", "none")
      [] OTHER -> FunctionCall(name, BaseKeys, url, Literal(headers),
                               NoLiteral, NoArg, NoLiteral)

BuildCall(method, url, headers, pd, query) ==
    Dispatch(method, "self.client." \o Lower(method), url, headers, pd, query)

req_to_expr(r) ==
    BuildCall(r.method, Literal(r.url), zip_kv_pairs(r.headers), r.post_data, r.query)

\* LocustRequest: headers is the identity of a dict object of the heap h.
LocustRequest(m, u, hd, pd, q) ==
    [method |-> m, url |-> u, headers |-> hd, post_data |-> pd, query |-> q]

\* LocustRequest.from_request: zip_kv_pairs builds a new dict object.
from_request(h, r) ==
    [heap |-> Append(h, zip_kv_pairs(r.headers)),
     lr |-> LocustRequest(r.method, repr(r.url), Len(h) + 1, r.post_data, r.query)]

\* The url expression of lreq_to_expr.
LreqUrl(u) ==
    IF StartsWithF(u) THEN FString(SliceToLast(u, 2)) ELSE Literal(SliceToLast(u, 1))

lreq_to_expr(h, lr) ==
    BuildCall(lr.method, LreqUrl(lr.url), h[lr.headers], lr.post_data, lr.query)

(***************************************************************************)
(* Input sets.                                                             *)
(***************************************************************************)
RECURSIVE SeqsUpTo(_, _)
SeqsUpTo(S, n) ==
    IF n = 0 THEN {<< >>}
    ELSE LET shorter == SeqsUpTo(S, n - 1)
         IN  shorter \cup {Append(s, x) : s \in {t \in shorter : Len(t) = n - 1}, x \in S}

MimeTypes == {Absent, Str(JSON_MIME_TYPE), Str("application/x-www-form-urlencoded")}
Texts == {Absent, None, Str("{\"a\":1}"), Str("a=1"), Str(Surrogate), Int5}
Names == {Absent, Str("a"), Str("b"), Str(Surrogate), Int5}
Values == {Absent, Str("1"), Str(Surrogate), Int5}
Elems == {Elem(n, v) : n \in Names, v \in Values} \cup {NotAMapping}
ParamsFields(n) ==
    {NoParamsKey, NullParams, NotAList} \cup {ListOf(l) : l \in SeqsUpTo(Elems, n)}
Descriptors(n) ==
    [mimeType : MimeTypes, text : Texts, params : ParamsFields(n)]

\* Markers: an operation that has not run yet, a variable a specification
\* does not use.
Pending == [exc |-> "pending"]
NoCall == [exc |-> "pending", name |-> ""]
NoRequest == [id |-> 0]
NoOutput == [exc |-> "pending", tasks |-> << >>]
NoTask2 == [made |-> FALSE]
NoResolution == [done |-> FALSE]

IdlePayload == post_data = EmptyPostData /\ rpd = Pending
IdleExpr == request = NoRequest /\ expr_req = NoCall /\ expr_lreq = NoCall
IdlePipeline == requests = << >> /\ out_task = NoOutput /\ out_task2 = NoOutput
IdleTask ==
    /\ heap = << >> /\ tasks = << >> /\ lineage = << >>
    /\ t2 = NoTask2 /\ resolved = NoResolution

(***************************************************************************)
(* SpecPayload: the payload interpreter applied to a postData object.      *)
(***************************************************************************)
InitPayload ==
    /\ post_data \in Descriptors(MaxParams)
    /\ rpd = Pending
    /\ IdleExpr /\ IdlePipeline /\ IdleTask

FromHarPostData ==
    /\ rpd = Pending
    /\ rpd' = from_har_post_data(post_data)
    /\ UNCHANGED << post_data, exprVars, pipelineVars, taskVars >>

NextPayload == FromHarPostData

SpecPayload == InitPayload /\ [][NextPayload]_vars

(***************************************************************************)
(* SpecExpr: both call-expression builders applied to one Request.         *)
(***************************************************************************)
UrlChars == {"h", "f", SQ, DQ, BS}
UrlTexts == SeqsUpTo(UrlChars, MaxUrlLen)
HeaderLists ==
    {<< >>, << [name |-> "k1", value |-> "a"] >>,
     << [name |-> "k1", value |-> "a"], [name |-> "k1", value |-> "b"] >>}
QueryPair(n, v) == [name |-> Str(n), value |-> Str(v)]
Queries ==
    {<< >>, << QueryPair("page", "2") >>,
     << QueryPair("page", "2"), QueryPair("a", "1") >>}
ExprDescriptors ==
    {d \in Descriptors(1) :
        /\ d.text \in {Absent, Str("{\"a\":1}"), Str("a=1"), Int5}
        /\ \A i \in 1..Len(d.params.items) :
              d.params.items[i] \in {Elem(Str("a"), Str("1")), Elem(Str("a"), Absent)}}

InitExpr ==
    /\ request \in {Request(1, 1, "host", m, u, h, pd, q) :
                       m \in HttpMethod, u \in UrlTexts, h \in HeaderLists,
                       pd \in ExprDescriptors, q \in Queries}
    /\ expr_req = NoCall
    /\ expr_lreq = NoCall
    /\ IdlePayload /\ IdlePipeline /\ IdleTask

ReqToExpr ==
    /\ expr_req = NoCall
    /\ expr_req' = req_to_expr(request)
    /\ UNCHANGED << request, expr_lreq, payloadVars, pipelineVars, taskVars >>

LreqToExpr ==
    /\ expr_lreq = NoCall
    /\ LET a == from_request(<< >>, request)
       IN  expr_lreq' = lreq_to_expr(a.heap, a.lr)
    /\ UNCHANGED << request, expr_req, payloadVars, pipelineVars, taskVars >>

NextExpr == ReqToExpr \/ LreqToExpr

SpecExpr == InitExpr /\ [][NextExpr]_vars

(***************************************************************************)
(* The two from_requests pipelines.                                        *)
(***************************************************************************)
\* transformer.blacklist.on_blacklist: a predicate on the origin host.
BlacklistedHosts == {"blacklisted.host"}
on_blacklist(host) == host \in BlacklistedHosts

\* Request.task_name(): a name derived from the Request.
task_name(r) == << "task", r.id >>

\* The number of elements of s whose timestamp is at most ts.
RECURSIVE CountUpTo(_, _)
CountUpTo(s, ts) ==
    IF s = << >> THEN 0
    ELSE (IF Head(s).timestamp <= ts THEN 1 ELSE 0) + CountUpTo(Tail(s), ts)

InsertAt(s, r, k) == SubSeq(s, 1, k) \o << r >> \o SubSeq(s, k + 1, Len(s))

\* A sort that puts an element before the earlier elements of equal key.
RECURSIVE sorted_ties_reversed(_)
sorted_ties_reversed(reqs) ==
    IF reqs = << >> THEN << >>
    ELSE InsertAt(sorted_ties_reversed(SubSeq(reqs, 1, Len(reqs) - 1)),
                  reqs[Len(reqs)],
                  CountUpTo(sorted_ties_reversed(SubSeq(reqs, 1, Len(reqs) - 1)),
                            reqs[Len(reqs)].timestamp - 1))

\* sorted(requests, key=lambda r: r.timestamp): a stable sort, each element
\* put after the elements before it whose key is not larger.
RECURSIVE sorted(_)
sorted(reqs) ==
    IF reqs = << >> THEN << >>
    ELSE InsertAt(sorted(SubSeq(reqs, 1, Len(reqs) - 1)),
                  reqs[Len(reqs)],
                  CountUpTo(sorted(SubSeq(reqs, 1, Len(reqs) - 1)),
                            reqs[Len(reqs)].timestamp))

\* Optional[LocustRequest] = None
NoneLR == [isNone |-> TRUE]

\* The legacy Task, with the defaults of its fields.
Task(n, r) ==
    [name |-> n, request |-> r, locust_request |-> NoneLR,
     locust_preprocessing |-> << >>, locust_postprocessing |-> << >>,
     global_code_blocks |-> EmptyDict]

\* Task.from_requests drained: the Tasks it yields, in order.
RECURSIVE TaskLoop(_)
TaskLoop(reqs) ==
    IF reqs = << >> THEN << >>
    ELSE IF on_blacklist(Head(reqs).netloc) THEN TaskLoop(Tail(reqs))
    ELSE << Task(task_name(Head(reqs)), Head(reqs)) >> \o TaskLoop(Tail(reqs))

Task_from_requests(reqs) == [exc |-> "none", tasks |-> TaskLoop(sorted(reqs))]

\* Values given for Task2.statements.
Ellipsis == [type |-> "ellipsis", items |-> << >>]
EmptyTuple == [type |-> "tuple", items |-> << >>]
ListOfStatements(items) == [type |-> "list", items |-> items]

\* Task2(name, request, statements) with __post_init__:
\* self.statements = list(self.statements) raises TypeError on a value that
\* is not iterable.
Task2(n, r, stmts) ==
    IF stmts.type \notin {"tuple", "list"}
    THEN [made |-> FALSE, exc |-> "TypeError", name |-> n, request |-> r,
          statements |-> stmts, global_code_blocks |-> EmptyDict]
    ELSE [made |-> TRUE, exc |-> "none", name |-> n, request |-> r,
          statements |-> ListOfStatements(stmts.items),
          global_code_blocks |-> EmptyDict]

\* One more step of the generator: the Task2 built for the next Request is
\* yielded, or the exception of building it ends the generator.
Yield(t, rest) ==
    IF t.exc # "none" THEN [exc |-> t.exc, tasks |-> << >>]
    ELSE [exc |-> rest.exc, tasks |-> << t >> \o rest.tasks]

\* Task2.from_requests drained: the Tasks it yields before it ends or raises.
RECURSIVE Task2Loop(_)
Task2Loop(reqs) ==
    IF reqs = << >> THEN [exc |-> "none", tasks |-> << >>]
    ELSE IF on_blacklist(Head(reqs).netloc) THEN Task2Loop(Tail(reqs))
    ELSE Yield(Task2(task_name(Head(reqs)), Head(reqs), Ellipsis),
               Task2Loop(Tail(reqs)))

Task2_from_requests(reqs) == Task2Loop(sorted(reqs))

(***************************************************************************)
(* SpecPipeline: both pipelines applied to one collection of Requests.     *)
(***************************************************************************)
Hosts == {"host"} \cup BlacklistedHosts
Captured(n) ==
    {[i \in 1..n |-> Request(i, c[i][1], c[i][2], "GET", << "h" >>, << >>,
                             EmptyPostData, << >>)] :
        c \in [1..n -> (1..MaxTime) \X Hosts]}

InitPipeline ==
    /\ requests \in UNION {Captured(n) : n \in 0..MaxRequests}
    /\ out_task = NoOutput
    /\ out_task2 = NoOutput
    /\ IdlePayload /\ IdleExpr /\ IdleTask

TaskFromRequests ==
    /\ out_task = NoOutput
    /\ out_task' = Task_from_requests(requests)
    /\ UNCHANGED << requests, out_task2, payloadVars, exprVars, taskVars >>

Task2FromRequests ==
    /\ out_task2 = NoOutput
    /\ out_task2' = Task2_from_requests(requests)
    /\ UNCHANGED << requests, out_task, payloadVars, exprVars, taskVars >>

NextPipeline == TaskFromRequests \/ Task2FromRequests

SpecPipeline == InitPipeline /\ [][NextPipeline]_vars

(***************************************************************************)
(* The legacy Task's operations.  A Task is an immutable value; the header *)
(* mapping of its override is a dict object of the heap h, named by its    *)
(* identity.  Each operation returns the heap after it and the new Task.   *)
(***************************************************************************)
\* `if self.locust_request is None: LocustRequest.from_request(self.request)
\* else: self.locust_request`, with the heap after it.
Original(h, task) ==
    IF task.locust_request = NoneLR THEN from_request(h, task.request)
    ELSE [heap |-> h, lr |-> task.locust_request]

ReplaceHeaders(o, d) ==
    [heap |-> Append(o.heap, d),
     lr |-> [o.lr EXCEPT !.headers = Len(o.heap) + 1]]

WithOverride(task, o) ==
    [heap |-> o.heap, task |-> [task EXCEPT !.locust_request = o.lr]]

\* A header injection that updates the override's dict in place.
MergedInPlace(o, extra) ==
    [heap |-> [o.heap EXCEPT ![o.lr.headers] = Merge(@, o.heap[extra])],
     lr |-> o.lr]

\* original_locust_request._replace(headers={**original.headers, **headers}):
\* a new dict object holds the merge.
Merged(o, extra) ==
    ReplaceHeaders(o, Merge(o.heap[o.lr.headers], o.heap[extra]))

\* Task.inject_headers(headers): extra is the identity of the caller's dict.
inject_headers(h, task, extra) == WithOverride(task, Merged(Original(h, task), extra))

\* A URL replacement that derives the override from the Request again.
Rederived(h, task) == from_request(h, task.request)

\* The override replace_url starts from.
OriginalForUrl(h, task) == Original(h, task)

\* original_locust_request._replace(url=url)
ReplacedUrl(o, url) == [heap |-> o.heap, lr |-> [o.lr EXCEPT !.url = url]]

\* Task.replace_url(url)
replace_url(h, task, url) == WithOverride(task, ReplacedUrl(OriginalForUrl(h, task), url))

(***************************************************************************)
(* Task2.from_task and the deferred binding.                               *)
(***************************************************************************)
OpaqueBlock(x) == [stmt |-> "OpaqueBlock", block |-> x]
Assignment(l, r) == [stmt |-> "Assignment", lhs |-> l, rhs |-> r]
Blocks(xs) == [k \in 1..Len(xs) |-> OpaqueBlock(xs[k])]

\* py.ExpressionView(name, target, converter).  The target is a closure: what
\* it reads (field) of which captured object (task: the legacy Task of
\* identity ref; t: the Task2 being built).
ExpressionView(n, obj, ref, field, conv) ==
    [name |-> n, obj |-> obj, ref |-> ref, field |-> field, converter |-> conv]

\* A binding that reads the request of the legacy Task it was converted from.
ViewOfTaskRequest(i, task) ==
    IF task.locust_request # NoneLR
    THEN ExpressionView("this task's request field", "task", i, "locust_request",
                        "lreq_to_expr")
    ELSE ExpressionView("this task's request field", "task", i, "request",
                        "req_to_expr")

\* `if task.locust_request: ... else: ...`: a LocustRequest is a tuple of
\* five fields, so it is true whenever it is not None.
expr_view(i, task) ==
    IF task.locust_request # NoneLR
    THEN ExpressionView("this task's request field", "task", i, "locust_request",
                        "lreq_to_expr")
    ELSE ExpressionView("this task's request field", "t", 0, "request",
                        "req_to_expr")

WithStatements(t, stmts) == [t EXCEPT !.statements = ListOfStatements(stmts)]

\* Task2.from_task(task), task being the legacy Task of identity i.
from_task(i, task) ==
    WithStatements(Task2(task.name, task.request, EmptyTuple),
                   Blocks(task.locust_preprocessing)
                   \o << Assignment("response", expr_view(i, task)) >>
                   \o Blocks(task.locust_postprocessing))

\* The deferred binding among the statements of a Task2.
BindingOf(t) ==
    t.statements.items[CHOOSE k \in 1..Len(t.statements.items) :
                           t.statements.items[k].stmt = "Assignment"].rhs

\* target(): the closure evaluated now, over the Tasks ts and the Task2 t.
Target(view, ts, t) ==
    CASE view.obj = "task" /\ view.field = "locust_request" -> ts[view.ref].locust_request
      [] view.obj = "task" /\ view.field = "request" -> ts[view.ref].request
      [] OTHER -> t.request

\* converter(target()), the resolution of an ExpressionView.
Converted(view, v, h) ==
    IF view.converter = "lreq_to_expr" THEN lreq_to_expr(h, v) ELSE req_to_expr(v)

Resolution(view, v, h) ==
    [done |-> TRUE, view |-> view, value |-> v, call |-> Converted(view, v, h)]

(***************************************************************************)
(* SpecTask: one Task yielded by Task.from_requests, the Tasks derived     *)
(* from it by inject_headers and replace_url, and a Task2 converted from   *)
(* one of them, whose request field may be reassigned before its binding   *)
(* is resolved.                                                            *)
(***************************************************************************)
Header(n, v) == [name |-> n, value |-> v]
ValidPayload ==
    [mimeType |-> Str("application/x-www-form-urlencoded"), text |-> Str("a=1"),
     params |-> ListOf(<< Elem(Str("a"), Str("1")) >>)]
TaskCalls ==
    {<< "GET", EmptyPostData, << >> >>,
     << "PATCH", EmptyPostData, << >> >>,
     << "POST", EmptyPostData, << QueryPair("page", "2") >> >>,
     << "PUT", ValidPayload, << QueryPair("page", "2") >> >>}
TaskRequests ==
    {Request(1, 1, "host", c[1], u, h, c[2], c[3]) :
        c \in TaskCalls,
        u \in {<< "h" >>, << "h", SQ >>},
        h \in {<< Header("k1", "a") >>, << Header("k1", "a"), Header("k2", "b") >>}}

\* The url arguments of replace_url: a quoted literal, a template, and a
\* text without quotes that begins with the letter f.
ReplaceUrls ==
    {<< SQ, "h", SQ >>, << "f", SQ, "h", SQ >>, << "f", "h", "h" >>}
\* The headers arguments of inject_headers.
ExtraHeaders ==
    {EmptyDict, [k \in {"k1", "k3"} |-> IF k = "k1" THEN "c" ELSE "d"]}
\* The Request a caller may assign to the request field of the Task2.
OtherRequest ==
    Request(2, 2, "host", "DELETE", << "f" >>, << >>, EmptyPostData, << >>)

Root == [parent |-> 0, op |-> "from_requests", url |-> << >>, extra |-> 0,
         arg |-> EmptyDict]

InitTask ==
    /\ tasks \in {Task_from_requests(<< r >>).tasks : r \in TaskRequests}
    /\ heap = << >>
    /\ lineage = << Root >>
    /\ t2 = NoTask2
    /\ resolved = NoResolution
    /\ IdlePayload /\ IdleExpr /\ IdlePipeline

\* task.inject_headers(e), the caller's dict e being a new object.
InjectHeaders ==
    \E i \in 1..Len(tasks), e \in ExtraHeaders :
        /\ Len(tasks) < MaxTasks
        /\ heap' = inject_headers(Append(heap, e), tasks[i], Len(heap) + 1).heap
        /\ tasks' = Append(tasks,
                           inject_headers(Append(heap, e), tasks[i], Len(heap) + 1).task)
        /\ lineage' = Append(lineage, [parent |-> i, op |-> "inject_headers",
                                       url |-> << >>, extra |-> Len(heap) + 1,
                                       arg |-> e])
        /\ UNCHANGED << t2, resolved, payloadVars, exprVars, pipelineVars >>

\* task.replace_url(u)
ReplaceUrl ==
    \E i \in 1..Len(tasks), u \in ReplaceUrls :
        /\ Len(tasks) < MaxTasks
        /\ heap' = replace_url(heap, tasks[i], u).heap
        /\ tasks' = Append(tasks, replace_url(heap, tasks[i], u).task)
        /\ lineage' = Append(lineage, [parent |-> i, op |-> "replace_url",
                                       url |-> u, extra |-> 0, arg |-> EmptyDict])
        /\ UNCHANGED << t2, resolved, payloadVars, exprVars, pipelineVars >>

\* t = Task2.from_task(task); source records which Task was converted.
FromTask ==
    \E i \in 1..Len(tasks) :
        /\ t2 = NoTask2
        /\ t2' = [task2 |-> from_task(i, tasks[i]), made |-> TRUE, source |-> i]
        /\ UNCHANGED << heap, tasks, lineage, resolved, payloadVars, exprVars,
                        pipelineVars >>

\* t.request = r: Task2 is a mutable dataclass.
SetRequest ==
    /\ t2 # NoTask2
    /\ t2.task2.request # OtherRequest
    /\ t2' = [t2 EXCEPT !.task2.request = OtherRequest]
    /\ UNCHANGED << heap, tasks, lineage, resolved, payloadVars, exprVars,
                    pipelineVars >>

\* The tree is materialized: the binding of t is resolved, once.
Resolve ==
    /\ t2 # NoTask2
    /\ t2.task2.exc = "none"
    /\ resolved = NoResolution
    /\ resolved' = Resolution(BindingOf(t2.task2),
                              Target(BindingOf(t2.task2), tasks, t2.task2), heap)
    /\ UNCHANGED << heap, tasks, lineage, t2, payloadVars, exprVars, pipelineVars >>

NextTask == InjectHeaders \/ ReplaceUrl \/ FromTask \/ SetRequest \/ Resolve

SpecTask == InitTask /\ [][NextTask]_vars

(***************************************************************************)
(* Claims about the payload interpreter (SpecPayload).                     *)
(***************************************************************************)
Interpreted == rpd.exc # "pending"
Succeeded == rpd.exc = "none"

\* C5: every failure of RequestsPostData.from_har_post_data is the single
\* InvalidPayload error, carrying the offending descriptor and the original
\* cause; no other error kind leaves the entry point.
C5_EveryFailureIsInvalidPayload ==
    (Interpreted /\ ~Succeeded) => IsInvalidPayload(rpd, post_data)

\* The descriptor carries no body text / no parameters: the key is missing or
\* its value is null.
NoBodyText(pd) == pd.text.type \in {"absent", "NoneType"}
NoParamsField(pd) == pd.params.type \in {"absent", "NoneType"}

\* C6: a descriptor lacking both body text and a parameters field (key absent
\* or value null) fails with InvalidPayload; so every successful
\* interpretation populates at least one of data, params, json, and never
\* both data and json.
C6_LackingBothFails ==
    Interpreted =>
        /\ (NoBodyText(post_data) /\ NoParamsField(post_data))
              => IsInvalidPayload(rpd, post_data)
        /\ Succeeded =>
              /\ rpd.data # NoLiteral \/ rpd.params # NoParams \/ rpd.json # NoLiteral
              /\ ~(rpd.data # NoLiteral /\ rpd.json # NoLiteral)

(***************************************************************************)
(* Claims about the call-expression builders (SpecExpr).                   *)
(***************************************************************************)
\* The (name-bytes, value-bytes) pairs of a list of name/value mappings whose
\* names and values are encodable strings.
BytePairs(items) == [i \in 1..Len(items) |-> << Bytes(items[i].name.s), Bytes(items[i].value.s) >>]

\* What the claim says the params argument of a PUT call is.
ExpectedPutParams(r) ==
    (IF r.post_data.params.type = "list" THEN BytePairs(r.post_data.params.items)
     ELSE << >>) \o BytePairs(r.query)

PutParamsAsClaimed(call, r) ==
    /\ call.exc = "none"
    /\ \E i \in 1..Len(call.keys) : call.keys[i] = "params"
    /\ call.params = [type |-> "list", items |-> ExpectedPutParams(r)]

ValidPut(r) == r.method = "PUT" /\ from_har_post_data(r.post_data).exc = "none"

\* C1: for every PUT request with a valid payload descriptor, on both paths,
\* building the call succeeds and its params argument is the payload's pairs
\* followed by the query pairs, also when the payload has no parameters field.
C1_PutParamsAlwaysPresent ==
    ValidPut(request) =>
        /\ expr_req # NoCall => PutParamsAsClaimed(expr_req, request)
        /\ expr_lreq # NoCall => PutParamsAsClaimed(expr_lreq, request)

\* C9: lreq_to_expr(LocustRequest.from_request(r)) and req_to_expr(r) fail
\* with the same error kind or return the same call: same target name, same
\* ordered argument map.
C9_BothPathsAgree ==
    (expr_req # NoCall /\ expr_lreq # NoCall) =>
        \/ expr_req.exc # "none" /\ expr_lreq.exc = expr_req.exc
        \/ /\ expr_req.exc = "none" /\ expr_lreq.exc = "none"
           /\ expr_lreq.name = expr_req.name
           /\ expr_lreq.keys = expr_req.keys
           /\ expr_lreq.url = expr_req.url
           /\ expr_lreq.headers = expr_req.headers
           /\ expr_lreq.timeout = Literal(30) /\ expr_req.timeout = Literal(30)
           /\ expr_lreq.allow_redirects = Literal(FALSE)
           /\ expr_req.allow_redirects = Literal(FALSE)
           /\ expr_lreq.data = expr_req.data
           /\ expr_lreq.params = expr_req.params
           /\ expr_lreq.json = expr_req.json

(***************************************************************************)
(* Claims about the pipelines (SpecPipeline).                              *)
(***************************************************************************)
Kept == {i \in 1..Len(requests) : ~on_blacklist(requests[i].netloc)}

\* C2: Task2.from_requests yields, without error, exactly one target Task per
\* Request whose host is not blacklisted, with name = task_name(), request =
\* that Request, and an empty statement list.
C2_Task2OnePerKeptRequest ==
    out_task2 # NoOutput =>
        /\ out_task2.exc = "none"
        /\ Len(out_task2.tasks) = Cardinality(Kept)
        /\ \A i \in Kept : \E k \in 1..Len(out_task2.tasks) :
              /\ out_task2.tasks[k].request = requests[i]
              /\ out_task2.tasks[k].name = task_name(requests[i])
              /\ out_task2.tasks[k].statements = ListOfStatements(<< >>)

\* C3: Task.from_requests yields exactly the Requests whose host is not
\* blacklisted, each once, by ascending timestamp, Requests of equal
\* timestamp in their enumeration order; no yielded Task has an override.
C3_TaskPipelineOrdered ==
    out_task # NoOutput =>
        /\ out_task.exc = "none"
        /\ {out_task.tasks[k].request.id : k \in 1..Len(out_task.tasks)} = Kept
        /\ Len(out_task.tasks) = Cardinality(Kept)
        /\ \A k \in 1..Len(out_task.tasks) :
              /\ out_task.tasks[k].request = requests[out_task.tasks[k].request.id]
              /\ out_task.tasks[k].name = task_name(out_task.tasks[k].request)
              /\ out_task.tasks[k].locust_request = NoneLR
        /\ \A k, l \in 1..Len(out_task.tasks) :
              k < l =>
                 \/ out_task.tasks[k].request.timestamp
                       < out_task.tasks[l].request.timestamp
                 \/ /\ out_task.tasks[k].request.timestamp
                          = out_task.tasks[l].request.timestamp
                    /\ out_task.tasks[k].request.id < out_task.tasks[l].request.id

\* A drained pipeline whose input had a blacklisted Request, two kept
\* Requests out of timestamp order, and two kept Requests of equal timestamp.
C3_Witness ==
    /\ out_task # NoOutput
    /\ \E i \in 1..Len(requests) : i \notin Kept
    /\ \E i, j \in Kept : i < j /\ requests[i].timestamp > requests[j].timestamp
    /\ \E i, j \in Kept : i < j /\ requests[i].timestamp = requests[j].timestamp
    /\ Len(out_task.tasks) >= 3

(***************************************************************************)
(* Claims about the legacy Task and the deferred binding (SpecTask).       *)
(***************************************************************************)
HasOverride(task) == task.locust_request # NoneLR

\* A Task value with the contents of the header mapping its override names.
Deep(h, task) ==
    [task |-> task,
     headers |-> IF HasOverride(task) THEN h[task.locust_request.headers]
                 ELSE EmptyDict]

\* The headers a mutation of the Task starts from.
PreviousHeaders(h, task) ==
    IF HasOverride(task) THEN h[task.locust_request.headers]
    ELSE zip_kv_pairs(task.request.headers)

\* new is prev merged with extra, extra winning on every key of both.
RightBiasedMerge(new, prev, extra) ==
    /\ DOMAIN new = (DOMAIN prev) \cup (DOMAIN extra)
    /\ \A k \in DOMAIN extra : new[k] = extra[k]
    /\ \A k \in (DOMAIN prev) \ (DOMAIN extra) : new[k] = prev[k]

\* C4: inject_headers and replace_url are pure: every step leaves every
\* existing Task (with the header mapping of its override) and every existing
\* dict unchanged, the `extra` dict passed in is unchanged after the call, and
\* the headers of the Task inject_headers returns are the previous headers
\* merged with `extra`, `extra` winning.
C4_MutationsArePure ==
    [][ /\ Len(tasks') >= Len(tasks)
        /\ \A i \in 1..Len(tasks) : Deep(heap', tasks'[i]) = Deep(heap, tasks[i])
        /\ \A d \in 1..Len(heap) : heap'[d] = heap[d]
        /\ (Len(tasks') > Len(tasks) /\ lineage'[Len(tasks')].op = "inject_headers")
              => /\ heap'[lineage'[Len(tasks')].extra] = lineage'[Len(tasks')].arg
                 /\ RightBiasedMerge(
                       heap'[tasks'[Len(tasks')].locust_request.headers],
                       PreviousHeaders(heap, tasks[lineage'[Len(tasks')].parent]),
                       lineage'[Len(tasks')].arg)
      ]_vars

\* inject_headers has been applied to a Task that replace_url returned, with
\* a key of `extra` already among the override's headers.
C4_Witness ==
    \E k \in 1..Len(tasks) :
        /\ lineage[k].op = "inject_headers"
        /\ lineage[k].parent > 1
        /\ lineage[lineage[k].parent].op = "replace_url"
        /\ \E key \in DOMAIN lineage[k].arg :
              /\ key \in DOMAIN heap[tasks[lineage[k].parent].locust_request.headers]
              /\ heap[tasks[lineage[k].parent].locust_request.headers][key]
                    # lineage[k].arg[key]

\* The URL and the headers the calls along the lineage of Task k lead to.
RECURSIVE UrlAlong(_)
UrlAlong(k) ==
    IF lineage[k].op = "replace_url" THEN lineage[k].url
    ELSE IF lineage[k].parent = 0 THEN repr(tasks[k].request.url)
    ELSE UrlAlong(lineage[k].parent)

RECURSIVE HeadersAlong(_)
HeadersAlong(k) ==
    IF lineage[k].parent = 0 THEN zip_kv_pairs(tasks[k].request.headers)
    ELSE IF lineage[k].op = "inject_headers"
    THEN Merge(HeadersAlong(lineage[k].parent), lineage[k].arg)
    ELSE HeadersAlong(lineage[k].parent)

\* The override of a Task with its header mapping.
DeepOverride(r) == [lr |-> r.task.locust_request,
                    headers |-> r.heap[r.task.locust_request.headers]]

\* The two orders of one replace_url and one inject_headers give equal
\* overrides (the dict objects differ, their contents do not).
Commute(h, task, u, e) ==
    LET a == inject_headers(Append(h, e), task, Len(h) + 1)
        b == replace_url(Append(h, e), task, u)
        ab == replace_url(a.heap, a.task, u)
        ba == inject_headers(b.heap, b.task, Len(h) + 1)
    IN  /\ [ab.task.locust_request EXCEPT !.headers = 0]
              = [ba.task.locust_request EXCEPT !.headers = 0]
        /\ DeepOverride(ab).headers = DeepOverride(ba).headers

\* C7: along one lineage the override keeps the method, payload descriptor
\* and query pairs of the originating Request; its URL is the argument of the
\* last replace_url, or the source-quoted Request URL; its headers are the
\* Request's headers merged with every injected mapping in call order;
\* replace_url changes only the URL, inject_headers only the headers, and the
\* two commute.
C7_OverrideAlongLineage ==
    \A k \in 1..Len(tasks) :
        /\ tasks[k].request = tasks[1].request
        /\ tasks[k].name = tasks[1].name
        /\ lineage[k].parent = 0 => ~HasOverride(tasks[k])
        /\ lineage[k].parent # 0 =>
              /\ HasOverride(tasks[k])
              /\ tasks[k].locust_request.method = tasks[k].request.method
              /\ tasks[k].locust_request.post_data = tasks[k].request.post_data
              /\ tasks[k].locust_request.query = tasks[k].request.query
              /\ tasks[k].locust_request.url = UrlAlong(k)
              /\ heap[tasks[k].locust_request.headers] = HeadersAlong(k)
        /\ (lineage[k].op = "replace_url" /\ HasOverride(tasks[lineage[k].parent])) =>
              /\ [tasks[k].locust_request EXCEPT !.url = << >>, !.headers = 0]
                    = [tasks[lineage[k].parent].locust_request
                          EXCEPT !.url = << >>, !.headers = 0]
              /\ heap[tasks[k].locust_request.headers]
                    = heap[tasks[lineage[k].parent].locust_request.headers]
        /\ (lineage[k].op = "inject_headers" /\ HasOverride(tasks[lineage[k].parent])) =>
              [tasks[k].locust_request EXCEPT !.headers = 0]
                 = [tasks[lineage[k].parent].locust_request EXCEPT !.headers = 0]
        /\ \A u \in ReplaceUrls, e \in ExtraHeaders : Commute(heap, tasks[k], u, e)

\* A Task reached by inject_headers and then replace_url, and another by
\* replace_url alone, of a PUT Request with a payload and a query.
C7_Witness ==
    /\ Len(tasks) >= 3
    /\ tasks[1].request.method = "PUT"
    /\ lineage[2].op = "inject_headers" /\ lineage[2].arg # EmptyDict
    /\ lineage[3].op = "replace_url" /\ lineage[3].parent = 2

\* C8: Task2.from_task resolves nothing at construction and succeeds whatever
\* the request; the binding resolves to the legacy Task's override if it had
\* one at conversion, and otherwise to the value the Task2's request field
\* holds when it is resolved.
C8_BindingIsDeferred ==
    [][ /\ (t2 = NoTask2 /\ t2' # NoTask2)
              => (t2'.task2.exc = "none" /\ resolved' = resolved)
        /\ (resolved = NoResolution /\ resolved' # NoResolution)
              => resolved'.value =
                    IF HasOverride(tasks[t2.source])
                    THEN tasks[t2.source].locust_request
                    ELSE t2.task2.request
      ]_vars

\* A Task2 converted from a Task without override whose Request has an
\* unsupported method; its request field was reassigned afterwards, and the
\* resolution gave the reassigned Request.
C8_Witness ==
    /\ resolved # NoResolution
    /\ t2 # NoTask2
    /\ ~HasOverride(tasks[t2.source])
    /\ tasks[t2.source].request.method = "PATCH"
    /\ resolved.value = OtherRequest
    /\ resolved.value # tasks[t2.source].request

\* The template marker: a leading f immediately followed by a quote.
HasTemplateMarker(u) == Len(u) >= 2 /\ u[1] = "f" /\ u[2] \in {SQ, DQ}
\* u with only its enclosing source quotes stripped.
Unquoted(u) ==
    IF Len(u) >= 2 /\ u[1] \in {SQ, DQ} /\ u[Len(u)] = u[1]
    THEN SubSeq(u, 2, Len(u) - 1) ELSE u

\* C10: a resolved override's URL text becomes a template exactly when it
\* carries the template marker, marker and quotes stripped, and otherwise a
\* literal of the text with only its enclosing quotes stripped, for every
\* text replace_url can put there.
C10_UrlTextByMarker ==
    (resolved # NoResolution /\ resolved.view.converter = "lreq_to_expr"
        /\ resolved.call.exc = "none")
    => resolved.call.url =
          IF HasTemplateMarker(resolved.value.url)
          THEN FString(Unquoted(Tail(resolved.value.url)))
          ELSE Literal(Unquoted(resolved.value.url))

====
